---- MODULE Spec2Model ----
(***************************************************************************)
(* Verification model of the visual product matcher (src/app.py and        *)
(* src/scripts/build_index.py).                                            *)
(*                                                                         *)
(* Strings are sequences of one-character strings.  A perceptual hash is a *)
(* sequence of 64 bits (0/1), its text form is what str(ImageHash) and     *)
(* imagehash.hex_to_hash produce and accept.                               *)
(***************************************************************************)
EXTENDS Integers, Sequences, FiniteSets

VARIABLES scoring, matching, store, rows, uploads, req, build

vars == <<scoring, matching, store, rows, uploads, req, build>>

---------------------------------------------------------------------------
(* Program constants *)

\* pHash width: "dist / 64.0" in score_from_distance
HashBits == 64

\* request.form.get("min_score", 50)
DefaultMinScore == 50

\* request.form.get("max_results", 24)
DefaultMaxResults == 24

---------------------------------------------------------------------------
(* Bounds of the model *)

\* longest catalog handed to find_similar
MaxCatalog == 3

\* number of concurrent search requests
NumRequests == 2

\* products build_index tries to index (make_products(60) in the script)
MaxProducts == 2

---------------------------------------------------------------------------
(* Generic sequence helpers *)

Rep(c, n) == [i \in 1..n |-> c]

Reverse(s) == [i \in 1..Len(s) |-> s[Len(s) + 1 - i]]

Max2(a, b) == IF a >= b THEN a ELSE b

Min2(a, b) == IF a <= b THEN a ELSE b

Abs(a) == IF a >= 0 THEN a ELSE -a

SetMin(S) == CHOOSE x \in S : \A y \in S : x <= y

SetMax(S) == CHOOSE x \in S : \A y \in S : x >= y

\* Body(v) with v evaluated once
Let(v, Body(_)) == CHOOSE r \in {Body(x) : x \in {v}} : TRUE

\* Python's seq[:k]: the first k elements, or all but the last -k when k < 0
PySlicePrefix(s, k) ==
  LET n == IF k >= 0 THEN Min2(k, Len(s)) ELSE Max2(0, Len(s) + k)
  IN  SubSeq(s, 1, n)

\* int(numpy.sqrt(n))
ISqrt(n) == CHOOSE k \in 0..n : k * k <= n /\ (k + 1) * (k + 1) > n

---------------------------------------------------------------------------
(* Text form of a hash: str(ImageHash) and imagehash.hex_to_hash *)

LowerHex == <<"0","1","2","3","4","5","6","7","8","9","a","b","c","d","e","f">>

UpperHex == <<"0","1","2","3","4","5","6","7","8","9","A","B","C","D","E","F">>

IsHexDigit(c) == \E v \in 1..16 : LowerHex[v] = c \/ UpperHex[v] = c

HexVal(c) == (CHOOSE v \in 1..16 : LowerHex[v] = c \/ UpperHex[v] = c) - 1

NibbleBits(v) == <<(v \div 8) % 2, (v \div 4) % 2, (v \div 2) % 2, v % 2>>

\* str(query_hash): the bits, four at a time, as lowercase hex digits
HashToHex(bits) ==
  [i \in 1..(Len(bits) \div 4) |->
     LowerHex[8 * bits[4*i - 3] + 4 * bits[4*i - 2] + 2 * bits[4*i - 1] + bits[4*i] + 1]]

\* str.strip() as int() applies it to its argument
Strip(s) ==
  LET keep == {i \in 1..Len(s) : s[i] # " "}
  IN  IF keep = {} THEN <<>> ELSE SubSeq(s, SetMin(keep), SetMax(keep))

\* the digit part int(s, 16) accepts: hex digits, with single underscores
\* between two digits
DigitsOk(w) ==
  /\ w # <<>>
  /\ \A i \in 1..Len(w) :
       \/ IsHexDigit(w[i])
       \/ /\ w[i] = "_"
          /\ 1 < i /\ i < Len(w)
          /\ IsHexDigit(w[i - 1]) /\ IsHexDigit(w[i + 1])

IsDigitChar(c) == c # "_"

\* the digits of w (underscores dropped), four bits each
DigitBits(w) ==
  Let(SelectSeq(w, IsDigitChar),
      LAMBDA digits :
        [i \in 1..(4 * Len(digits)) |->
           NibbleBits(HexVal(digits[(i + 3) \div 4]))[((i - 1) % 4) + 1]])

\* format(value, "b"): no leading zeros, "0" for zero
StripZeroBits(b) ==
  LET ones == {i \in 1..Len(b) : b[i] = 1}
  IN  IF ones = {} THEN <<0>> ELSE SubSeq(b, SetMin(ones), Len(b))

\* int(hexstr, 16): [ok, neg, bits], bits being format(abs(value), "b").
\* After strip(): an optional sign, an optional 0x or 0X (one underscore may
\* follow it), then the digits.
PyIntBase16(hexstr) ==
  Let(Strip(hexstr),
      LAMBDA t :
        LET signed == t # <<>> /\ Head(t) \in {"+", "-"}
            u      == IF signed THEN Tail(t) ELSE t
            pre    == Len(u) >= 2 /\ u[1] = "0" /\ u[2] \in {"x", "X"}
            v      == IF pre THEN Tail(Tail(u)) ELSE u
            w      == IF pre /\ v # <<>> /\ Head(v) = "_" THEN Tail(v) ELSE v
        IN  IF DigitsOk(w)
              THEN [ok |-> TRUE, neg |-> signed /\ Head(t) = "-",
                    bits |-> Let(DigitBits(w), LAMBDA b : StripZeroBits(b))]
              ELSE [ok |-> FALSE, neg |-> FALSE, bits |-> <<>>])

\* imagehash.hex_to_hash (imagehash 4.x): [ok, bits].  The hash is hash_size rows of
\* hash_size bits where hash_size = int(sqrt(4 * len(hexstr))).  It raises
\* when int() refuses the text and when a "-" ends up among the bits
\* (a negative value).  Rows of unequal length make numpy raise (or, before
\* numpy 1.24, give an array of at most hash_size + 2 row objects, whose
\* size never equals 64 for the text lengths of this model), so they are an
\* error too.
HexToHash(hexstr) ==
  Let(PyIntBase16(hexstr),
      LAMBDA n :
        LET hash_size == ISqrt(Len(hexstr) * 4)
            width     == hash_size * hash_size
            padded    == Max2(width, Len(n.bits))
        IN  IF ~n.ok THEN [ok |-> FALSE, bits |-> <<>>]
            ELSE IF n.neg /\ n.bits # <<0>> THEN [ok |-> FALSE, bits |-> <<>>]
            ELSE IF padded % hash_size # 0 THEN [ok |-> FALSE, bits |-> <<>>]
            ELSE [ok |-> TRUE,
                  bits |-> Rep(0, padded - Len(n.bits)) \o n.bits])

\* ImageHash.__sub__: [ok, dist]; hashes of different size raise TypeError
HashSub(a, b) ==
  IF Len(a) # Len(b) THEN [ok |-> FALSE, dist |-> 0]
  ELSE [ok |-> TRUE, dist |-> Cardinality({i \in 1..Len(a) : a[i] # b[i]})]

---------------------------------------------------------------------------
(* score_from_distance *)

\* int(round(x)) of x = num / den, den > 0: Python 3 rounds halves to even
RoundHalfEven(num, den) ==
  LET q == num \div den
      r == num % den
  IN  IF 2 * r < den THEN q
      ELSE IF 2 * r > den THEN q + 1
      ELSE IF q % 2 = 0 THEN q ELSE q + 1

\* a slip: int() without round()
ScoreTruncated(dist) ==
  Max2(0, Min2(100, (100 * (HashBits - dist)) \div HashBits))

score_from_distance(dist) ==
  Max2(0, Min2(100, RoundHalfEven(100 * (HashBits - dist), HashBits)))

---------------------------------------------------------------------------
(* find_similar and the threshold filter of search *)

\* a Product as find_similar reads it: its id and its stored phash text
\* (name, category, image_url and price take no part in matching)
Product(id, phash) == [id |-> id, phash |-> phash]

\* the rows load_products returns, ids in insertion order as build_index
\* assigns them
CatalogOf(fps) == [i \in 1..Len(fps) |-> Product(i, fps[i])]

\* one pass of the loop body of find_similar: <<(p, score)>>, or <<>> when
\* hex_to_hash or the subtraction raised (except Exception: continue)
ScoreEntry(query_hash, p) ==
  Let(HexToHash(p.phash),
      LAMBDA h :
        IF ~h.ok THEN <<>>
        ELSE Let(HashSub(query_hash, h.bits),
                 LAMBDA d :
                   IF ~d.ok THEN <<>>
                   ELSE <<[p |-> p, score |-> score_from_distance(d.dist)]>>))

RECURSIVE ScanCatalog(_, _, _)
\* the for loop of find_similar from products[i] on
ScanCatalog(query_hash, products, i) ==
  IF i > Len(products) THEN <<>>
  ELSE ScoreEntry(query_hash, products[i]) \o ScanCatalog(query_hash, products, i + 1)

RECURSIVE InsertAsc(_, _)
\* stable insertion: x goes after every element whose key is <= its own
InsertAsc(x, sorted) ==
  IF sorted = <<>> THEN <<x>>
  ELSE IF Head(sorted).score <= x.score
         THEN <<Head(sorted)>> \o InsertAsc(x, Tail(sorted))
         ELSE <<x>> \o sorted

RECURSIVE StableSortAsc(_)
\* a stable ascending sort by score
StableSortAsc(s) ==
  IF s = <<>> THEN <<>>
  ELSE InsertAsc(s[Len(s)], StableSortAsc(SubSeq(s, 1, Len(s) - 1)))

\* a slip: the list is not reversed before the ascending sort, so equal
\* scores come out in reverse catalog order
SortReverseUnstable(scored) == Reverse(StableSortAsc(scored))

\* a slip: reverse=True forgotten
SortAscending(scored) == StableSortAsc(scored)

\* scored.sort(key=score, reverse=True): list.sort reverses the list, sorts
\* it stably in ascending order and reverses the result
SortReverse(scored) == Reverse(StableSortAsc(Reverse(scored)))

\* find_similar: [raised, scored, list], scored being its local list once
\* sorted and list what it returns; it raises only when the query text
\* itself does not decode
find_similar(phash_hex, products, max_results) ==
  Let(HexToHash(phash_hex),
      LAMBDA query_hash :
        IF ~query_hash.ok THEN [raised |-> TRUE, scored |-> <<>>, list |-> <<>>]
        ELSE Let(ScanCatalog(query_hash.bits, products, 1),
                 LAMBDA unsorted :
                   Let(SortReverse(unsorted),
                       LAMBDA scored :
                         [raised |-> FALSE, scored |-> scored,
                          list |-> PySlicePrefix(scored, max_results)])))

RECURSIVE ThresholdFilterStrict(_, _)
\* a slip: s > min_score
ThresholdFilterStrict(results, min_score) ==
  IF results = <<>> THEN <<>>
  ELSE IF Head(results).score > min_score
         THEN <<Head(results)>> \o ThresholdFilterStrict(Tail(results), min_score)
         ELSE ThresholdFilterStrict(Tail(results), min_score)

RECURSIVE ThresholdFilter(_, _)
\* [(p, s) for (p, s) in results if s >= min_score]
ThresholdFilter(results, min_score) ==
  IF results = <<>> THEN <<>>
  ELSE IF Head(results).score >= min_score
         THEN <<Head(results)>> \o ThresholdFilter(Tail(results), min_score)
         ELSE ThresholdFilter(Tail(results), min_score)

---------------------------------------------------------------------------
(* Inputs *)

SeqsUpTo(S, n) == UNION {[1..k -> S] : k \in 0..n}

FpZero == Rep("0", 16)

FpOnes == Rep("f", 16)

\* eight bits away from FpZero
FpLowByte == Rep("0", 14) \o <<"f", "f">>

\* not hexadecimal at all
FpMalformed == Rep("z", 16)

\* eight hex digits: a 32-bit text
FpShort == Rep("0", 8)

\* sixteen characters with a 0x prefix
FpPrefixed == <<"0", "x">> \o Rep("0", 14)

\* seventeen hex digits: a 68-bit text
FpLong == Rep("0", 17)

\* stored phash texts a catalog row may hold
FpPool == {FpZero, FpOnes, FpLowByte, FpMalformed, FpShort, FpPrefixed, FpLong}

\* hashes imagehash.phash may return for a query image
HashPool == {Rep(0, HashBits), Rep(1, HashBits)}

MaxResultsPool == {-1, 0, 1, 2, DefaultMaxResults}

MinScorePool == {0, 80, 88, 150}

---------------------------------------------------------------------------
(* score_from_distance on every distance two 64-bit hashes can have *)

ScoreInit ==
  /\ scoring \in {[pc |-> "call", dist |-> d, score |-> 0] : d \in 0..HashBits}
  /\ matching = [pc |-> "off"]
  /\ store = "absent" /\ rows = <<>> /\ uploads = <<>> /\ req = <<>> /\ build = <<>>

ScoreCall ==
  /\ scoring.pc = "call"
  /\ scoring' = [scoring EXCEPT !.pc = "returned",
                                !.score = score_from_distance(scoring.dist)]
  /\ UNCHANGED <<matching, store, rows, uploads, req, build>>

ScoreNext == ScoreCall

SpecScore == ScoreInit /\ [][ScoreNext]_vars

---------------------------------------------------------------------------
(* find_similar followed by the threshold filter, on bounded catalogs *)

MatchInit ==
  /\ matching \in {[pc |-> "call", query |-> HashToHex(q), catalog |-> CatalogOf(fps),
                    max_results |-> k, min_score |-> DefaultMinScore,
                    scored |-> <<>>, ranked |-> <<>>, results |-> <<>>] :
                     q \in HashPool, fps \in SeqsUpTo(FpPool, MaxCatalog),
                     k \in MaxResultsPool}
  /\ scoring = [pc |-> "off"]
  /\ store = "absent" /\ rows = <<>> /\ uploads = <<>> /\ req = <<>> /\ build = <<>>

\* results = find_similar(str(query_hash), products, max_results=max_results)
MatchFindSimilar ==
  /\ matching.pc = "call"
  /\ matching' =
       Let(find_similar(matching.query, matching.catalog, matching.max_results),
           LAMBDA r : [matching EXCEPT !.pc = IF r.raised THEN "raised" ELSE "ranked",
                                       !.scored = r.scored, !.ranked = r.list])
  /\ UNCHANGED <<scoring, store, rows, uploads, req, build>>

\* results = [(p, s) for (p, s) in results if s >= min_score]
MatchThreshold ==
  /\ matching.pc = "ranked"
  /\ \E m \in MinScorePool :
       matching' = [matching EXCEPT !.pc = "rendered", !.min_score = m,
                                    !.results = ThresholdFilter(matching.ranked, m)]
  /\ UNCHANGED <<scoring, store, rows, uploads, req, build>>

MatchNext == MatchFindSimilar \/ MatchThreshold

SpecMatch == MatchInit /\ [][MatchNext]_vars

---------------------------------------------------------------------------
(* The search handler, the upload directory and the product store *)

\* query_hash = None
None == <<>>

\* what a file or a response body holds: an image Pillow decodes (with the
\* hash imagehash.phash gives it), bytes Pillow does not recognise, or an
\* image file cut short (recognised by Image.open, refused by convert)
ImageFile(hash) == [kind |-> "image", hash |-> hash]

TextFile == [kind |-> "text", hash |-> <<>>]

TruncatedImage == [kind |-> "truncated", hash |-> <<>>]

NoFile == [kind |-> "none", hash |-> <<>>]

Unreachable == [kind |-> "unreachable", hash |-> <<>>]

ContentPool == {ImageFile(h) : h \in HashPool} \cup {TextFile, TruncatedImage}

\* file names a browser may send
FilenamePool == {<<"a", "/", "b">>, <<"a", "_", "b">>, <<"c">>}

\* file.filename.replace("/", "_").replace("\\", "_")
SafeName(filename) ==
  [i \in 1..Len(filename) |-> IF filename[i] \in {"/", "\\"} THEN "_" ELSE filename[i]]

SafeNames == {SafeName(f) : f \in FilenamePool}

\* a form field: absent, an integer text, or a text int() refuses
FormField(kind, val) == [kind |-> kind, val |-> val]

MinScoreFields == {FormField("absent", 0), FormField("int", 150)}

MaxResultsFields == {FormField("absent", 0), FormField("int", -1), FormField("text", 0)}

\* int(request.form.get(name, default)): [ok, val]; ValueError when not ok
FormInt(field, default) ==
  IF field.kind = "absent" THEN [ok |-> TRUE, val |-> default]
  ELSE IF field.kind = "int" THEN [ok |-> TRUE, val |-> field.val]
  ELSE [ok |-> FALSE, val |-> 0]

\* what requests.get(url, timeout=8) may come back with
ResponsePool ==
  {[status |-> "ok", body |-> c] : c \in ContentPool}
    \cup {[status |-> "http404", body |-> TextFile], [status |-> "timeout", body |-> NoFile]}

\* Image.open followed by compute_phash_from_pil on the bytes read:
\* "hash", "unidentified" (UnidentifiedImageError) or "oserror"
Decode(content) ==
  IF content.kind = "image" THEN "hash"
  ELSE IF content.kind = "truncated" THEN "oserror"
  ELSE "unidentified"

\* compute_phash_from_url: every exception, a failed fetch included, gives
\* None
compute_phash_from_url(resp) ==
  IF resp.status = "ok" /\ Decode(resp.body) = "hash"
    THEN HashToHex(resp.body.hash)
    ELSE None

\* the requests in flight
Requests == DOMAIN req

IdleRequest ==
  [pc |-> "idle", outcome |-> "none", src |-> "none", name |-> <<>>, own |-> NoFile,
   min_score |-> DefaultMinScore, max_results |-> DefaultMaxResults,
   query_hash |-> None, seen |-> "unread", ranked |-> <<>>, results |-> <<>>]

IdleBuild == [pc |-> "idle", next |-> 1, txn |-> <<>>, attached |-> FALSE]

Finish(q, outcome) == [q EXCEPT !.pc = "done", !.outcome = outcome]

\* lines 148-159 once load_products has returned products
Render(q, seen, products) ==
  Let(find_similar(q.query_hash, products, q.max_results),
      LAMBDA r :
        IF r.raised THEN Finish([q EXCEPT !.seen = seen], "error500")
        ELSE Finish([q EXCEPT !.seen = seen, !.ranked = r.list,
                              !.results = ThresholdFilter(r.list, q.min_score)],
                    "results"))

Init ==
  /\ scoring = [pc |-> "off"]
  /\ matching = [pc |-> "off"]
  /\ \/ store = "absent" /\ rows = <<>>
     \/ store = "built" /\ rows \in {<<>>, CatalogOf(<<FpZero, FpOnes>>)}
  /\ uploads = [n \in SafeNames |-> NoFile]
  /\ req = [r \in 1..1 |-> IdleRequest]
  /\ build = IdleBuild

\* search, lines 109-142: the store check, the form, the choice of source
SearchBegin(r) ==
  /\ req[r].pc = "idle"
  /\ UNCHANGED <<scoring, matching, store, rows, uploads, build>>
  /\ IF store = "absent"
       THEN req' = [req EXCEPT ![r] = Finish(@, "db_not_found")]
       ELSE \E fmin \in MinScoreFields, fmax \in MaxResultsFields,
               src \in {"file", "url", "none"},
               filename \in FilenamePool, content \in ContentPool :
              LET mn == FormInt(fmin, DefaultMinScore)
                  mx == FormInt(fmax, DefaultMaxResults)
                  q  == [req[r] EXCEPT !.min_score = mn.val, !.max_results = mx.val]
              IN  req' = [req EXCEPT ![r] =
                    IF ~(mn.ok /\ mx.ok) THEN Finish(req[r], "error500")
                    ELSE IF src = "file"
                      THEN [q EXCEPT !.pc = "save", !.src = "file",
                                     !.name = SafeName(filename), !.own = content]
                    ELSE IF src = "url"
                      THEN [q EXCEPT !.pc = "fetch", !.src = "url"]
                    ELSE Finish(q, "no_input")]

\* search, lines 124-128: file.save(saved_path)
SearchSaveUpload(r) ==
  /\ req[r].pc = "save"
  /\ uploads' = [uploads EXCEPT ![req[r].name] = req[r].own]
  /\ req' = [req EXCEPT ![r].pc = "hash"]
  /\ UNCHANGED <<scoring, matching, store, rows, build>>

\* search, lines 130-135 and 144-146: the saved file is opened again and
\* hashed; only UnidentifiedImageError is caught
SearchHashUpload(r) ==
  /\ req[r].pc = "hash"
  /\ LET c == uploads[req[r].name]
         d == Decode(c)
     IN  req' = [req EXCEPT ![r] =
           IF d = "hash" THEN [@ EXCEPT !.pc = "load", !.query_hash = HashToHex(c.hash)]
           ELSE IF d = "unidentified" THEN Finish(@, "bad_image")
           ELSE Finish(@, "error500")]
  /\ UNCHANGED <<scoring, matching, store, rows, uploads, build>>

\* search, lines 138-139 and 144-146
SearchFetchUrl(r) ==
  /\ req[r].pc = "fetch"
  /\ \E resp \in ResponsePool :
       LET h == compute_phash_from_url(resp)
           q == [req[r] EXCEPT !.own = IF resp.status = "ok" THEN resp.body ELSE Unreachable,
                               !.query_hash = h]
       IN  req' = [req EXCEPT ![r] =
             IF h = None THEN Finish(q, "bad_image") ELSE [q EXCEPT !.pc = "load"]]
  /\ UNCHANGED <<scoring, matching, store, rows, uploads, build>>

\* load_products, line 37: no file, so [] is returned and search goes on to
\* rank and render it
SearchLoadCheck(r) ==
  /\ req[r].pc = "load"
  /\ req' = [req EXCEPT ![r] =
       IF store = "absent" THEN Render(@, "absent", <<>>)
       ELSE [@ EXCEPT !.pc = "query", !.seen = "present"]]
  /\ UNCHANGED <<scoring, matching, store, rows, uploads, build>>

\* load_products, lines 39-53: sqlite3.connect creates the file when it is
\* missing, and the SELECT raises OperationalError when there is no table
SearchLoadQuery(r) ==
  /\ req[r].pc = "query"
  /\ store' = IF store = "absent" THEN "empty" ELSE store
  /\ req' = [req EXCEPT ![r] =
       IF store = "built" THEN Render(@, "present", rows)
       ELSE Finish([@ EXCEPT !.seen = store], "error500")]
  /\ UNCHANGED <<scoring, matching, rows, uploads, build>>

\* build_index.main, lines 78-79: connect, CREATE TABLE IF NOT EXISTS (in
\* effect at once), DELETE FROM products (pending until the first commit)
BuildConnect ==
  /\ build.pc = "idle"
  /\ store' = "built"
  /\ rows' = IF store = "built" THEN rows ELSE <<>>
  /\ build' = [pc |-> "indexing", next |-> 1, txn |-> <<>>, attached |-> TRUE]
  /\ UNCHANGED <<scoring, matching, uploads, req>>

\* build_index.main, lines 80-96: one product; a failed download is skipped,
\* a hashed one is inserted and committed
BuildIndexProduct ==
  /\ build.pc = "indexing"
  /\ build.next <= MaxProducts
  /\ \E resp \in {[status |-> "ok", body |-> ImageFile(h)] : h \in HashPool}
                   \cup {[status |-> "timeout", body |-> NoFile]} :
       LET txn == IF resp.status = "ok"
                    THEN Append(build.txn, Product(build.next, HashToHex(resp.body.hash)))
                    ELSE build.txn
       IN  /\ build' = [build EXCEPT !.next = @ + 1, !.txn = txn]
           /\ rows' = IF resp.status = "ok" /\ build.attached THEN txn ELSE rows
  /\ UNCHANGED <<scoring, matching, store, uploads, req>>

\* build_index.main, line 78: leaving the with block commits
BuildFinish ==
  /\ build.pc = "indexing"
  /\ build.next > MaxProducts
  /\ build' = [build EXCEPT !.pc = "done"]
  /\ rows' = IF build.attached THEN build.txn ELSE rows
  /\ UNCHANGED <<scoring, matching, store, uploads, req>>

\* another process removes data/products.db; a writer that has it open
\* keeps writing to the unlinked file
RemoveStore ==
  /\ store # "absent"
  /\ store' = "absent"
  /\ rows' = <<>>
  /\ build' = [build EXCEPT !.attached = FALSE]
  /\ UNCHANGED <<scoring, matching, uploads, req>>

Next ==
  \/ \E r \in Requests : SearchBegin(r)
  \/ \E r \in Requests : SearchSaveUpload(r)
  \/ \E r \in Requests : SearchHashUpload(r)
  \/ \E r \in Requests : SearchFetchUrl(r)
  \/ \E r \in Requests : SearchLoadCheck(r)
  \/ \E r \in Requests : SearchLoadQuery(r)
  \/ BuildConnect
  \/ BuildIndexProduct
  \/ BuildFinish
  \/ RemoveStore

\* one search request, with the store built and removed around it
Spec == Init /\ [][Next]_vars

\* concurrent search requests over a store that stays as built; they meet
\* only in the upload directory
RaceInit ==
  /\ scoring = [pc |-> "off"]
  /\ matching = [pc |-> "off"]
  /\ store = "built"
  /\ rows = CatalogOf(<<FpZero, FpOnes>>)
  /\ uploads = [n \in SafeNames |-> NoFile]
  /\ req = [r \in 1..NumRequests |-> IdleRequest]
  /\ build = IdleBuild

RaceNext ==
  \/ \E r \in Requests : SearchBegin(r)
  \/ \E r \in Requests : SearchSaveUpload(r)
  \/ \E r \in Requests : SearchHashUpload(r)
  \/ \E r \in Requests : SearchFetchUrl(r)
  \/ \E r \in Requests : SearchLoadCheck(r)
  \/ \E r \in Requests : SearchLoadQuery(r)

SpecRace == RaceInit /\ [][RaceNext]_vars

---------------------------------------------------------------------------
(* Properties of score_from_distance *)

\* C4: for every distance d in 0..64 the score is the integer nearest to
\* 100 * (1 - d / 64) (a half goes to the even neighbour, as round() does),
\* it lies in 0..100, distance 0 gives 100 and distance 64 gives 0.
C4_ScoreIsRoundedLinear ==
  scoring.pc = "returned" =>
    LET d == scoring.dist
        s == scoring.score
        e == HashBits * s - 100 * (HashBits - d)
    IN  /\ s \in 0..100
        /\ 2 * Abs(e) <= HashBits
        /\ (2 * Abs(e) = HashBits => s % 2 = 0)
        /\ (d = 0 => s = 100)
        /\ (d = HashBits => s = 0)

\* a call that returned for a distance whose exact score has a fraction
C4_Witness ==
  /\ scoring.pc = "returned"
  /\ scoring.dist = 2
  /\ scoring.score = 97

---------------------------------------------------------------------------
(* Properties of find_similar and the threshold filter *)

\* where a product stands in the catalog passed in
CatalogPos(p) == CHOOSE k \in 1..Len(matching.catalog) : matching.catalog[k] = p

\* C1: the list find_similar returns is in descending score order, and two
\* entries of equal score stand in the order of their items in the catalog.
C1_RankedDescendingStable ==
  matching.pc = "ranked" =>
    \A i, j \in 1..Len(matching.ranked) :
      i < j =>
        \/ matching.ranked[i].score > matching.ranked[j].score
        \/ /\ matching.ranked[i].score = matching.ranked[j].score
           /\ CatalogPos(matching.ranked[i].p) < CatalogPos(matching.ranked[j].p)

\* a returned list with a tie, a strict descent, and a catalog that did not
\* already stand in score order
C1_Witness ==
  /\ matching.pc = "ranked"
  /\ \E i, j, k \in 1..Len(matching.ranked) :
       /\ i < j /\ j < k
       /\ matching.ranked[i].score = matching.ranked[j].score
       /\ matching.ranked[j].score > matching.ranked[k].score
       /\ CatalogPos(matching.ranked[k].p) < CatalogPos(matching.ranked[i].p)

\* a fingerprint text in the spec's sense: hex digits only, of the query's
\* bit width (four bits a digit)
WellFormedFp(s) ==
  /\ \A i \in 1..Len(s) : IsHexDigit(s[i])
  /\ 4 * Len(s) = HashBits

\* C3: find_similar returns normally whatever the catalog holds, leaves out
\* every entry whose stored fingerprint is not valid hexadecimal or not of
\* the query's bit width, and scores and ranks every other entry.
C3_CorruptEntriesLeftOut ==
  /\ matching.pc # "raised"
  /\ matching.pc = "ranked" =>
       /\ \A i \in 1..Len(matching.scored) : WellFormedFp(matching.scored[i].p.phash)
       /\ \A k \in 1..Len(matching.catalog) :
            WellFormedFp(matching.catalog[k].phash) =>
              \E i \in 1..Len(matching.scored) : matching.scored[i].p = matching.catalog[k]

\* s is t with some entries dropped, order kept
RECURSIVE IsSubsequence(_, _)
IsSubsequence(s, t) ==
  IF s = <<>> THEN TRUE
  ELSE IF t = <<>> THEN FALSE
  ELSE IF Head(s) = Head(t) THEN IsSubsequence(Tail(s), Tail(t))
  ELSE IsSubsequence(s, Tail(t))

\* C5: the rendered list is exactly the entries of find_similar's list with
\* score >= min_score, in the same order; for the catalog [1: 0000000000000000,
\* 2: ffffffffffffffff], query 0000000000000000 and max_results 2 the list is
\* [(1, 100), (2, 0)] and min_score 80 leaves only id 1.
C5_RenderedIsFlooredRanking ==
  /\ matching.pc = "rendered" =>
       /\ IsSubsequence(matching.results, matching.ranked)
       /\ \A i \in 1..Len(matching.results) :
            matching.results[i].score >= matching.min_score
       /\ Len(matching.results) =
            Cardinality({i \in 1..Len(matching.ranked) :
                           matching.ranked[i].score >= matching.min_score})
  /\ ( /\ matching.pc \in {"ranked", "rendered"}
       /\ matching.catalog = <<Product(1, FpZero), Product(2, FpOnes)>>
       /\ matching.query = FpZero
       /\ matching.max_results = 2 ) =>
       /\ matching.ranked = << [p |-> Product(1, FpZero), score |-> 100],
                               [p |-> Product(2, FpOnes), score |-> 0] >>
       /\ (matching.pc = "rendered" /\ matching.min_score = 80) =>
            matching.results = << [p |-> Product(1, FpZero), score |-> 100] >>

\* the scenario itself, rendered with min_score 80
C5_Witness ==
  /\ matching.pc = "rendered"
  /\ matching.catalog = <<Product(1, FpZero), Product(2, FpOnes)>>
  /\ matching.query = FpZero
  /\ matching.max_results = 2
  /\ matching.min_score = 80
  /\ Len(matching.results) = 1

\* C10: for max_results >= 1, keeping the first max_results of the ranking
\* and then dropping scores below min_score gives the same list as dropping
\* them from the full ranking first and then keeping the first max_results.
C10_TruncateFilterCommute ==
  (matching.pc = "rendered" /\ matching.max_results >= 1) =>
    matching.results =
      PySlicePrefix(ThresholdFilter(matching.scored, matching.min_score),
                    matching.max_results)

\* a search where truncation cut the ranking and the floor cut it again
C10_Witness ==
  /\ matching.pc = "rendered"
  /\ matching.max_results >= 1
  /\ Len(matching.scored) > matching.max_results
  /\ Len(matching.results) >= 1
  /\ Len(matching.results) < Len(matching.ranked)

---------------------------------------------------------------------------
(* Properties of the search handler *)

\* C2: whatever max_results the request form carries, the list find_similar
\* returns to search has at most max_results entries.
C2_AtMostMaxResults ==
  \A r \in Requests :
    req[r].outcome = "results" => Len(req[r].ranked) <= req[r].max_results

\* C6: a min_score outside 0..100 or a max_results <= 0 is rejected or
\* clamped before the scan: find_similar and the threshold filter only ever
\* run with min_score in 0..100 and max_results >= 1.
C6_BadBoundsNeverReachScan ==
  \A r \in Requests :
    req[r].outcome = "results" =>
      /\ req[r].min_score \in 0..100
      /\ req[r].max_results >= 1

\* C7: in every interleaving of the requests, the fingerprint a request
\* matches with is the fingerprint of the image that request itself received.
C7_OwnFingerprint ==
  \A r \in Requests :
    req[r].query_hash # None =>
      /\ req[r].own.kind = "image"
      /\ req[r].query_hash = HashToHex(req[r].own.hash)

\* C8: a catalog read made while the store is absent ends in the "database
\* not found" outcome, never in a rendered result list.
C8_AbsentStoreSignalled ==
  \A r \in Requests :
    req[r].seen = "absent" => req[r].outcome = "db_not_found"

\* C9: a search whose image cannot be obtained (failed fetch, bytes that are
\* not a decodable image) ends in the reported failure "could not process the
\* image": no fingerprint, no catalog read, no result list, no crash.
C9_UnobtainableImageFails ==
  \A r \in Requests :
    req[r].own.kind \in {"text", "truncated", "unreachable"} =>
      \/ req[r].pc \in {"save", "hash"}
      \/ /\ req[r].pc = "done"
         /\ req[r].outcome = "bad_image"
         /\ req[r].query_hash = None
         /\ req[r].seen = "unread"
         /\ req[r].results = <<>>

====
